---- MODULE Spec2Model ----
(***************************************************************************)
(* Incremental indexing pipeline of the Protokollfuehrer agent.             *)
(*                                                                         *)
(*  - the batch orchestrator of src/indexer.py (main and its helpers),     *)
(*    one action per blocking step of the loop over the protocol files;    *)
(*  - the interactive save of src/main.py / src/protocol_console.py        *)
(*    (embed_and_store_text), which writes to the same table;              *)
(*  - the seeding indexer of src/protokollfuehrer-agent/indexer.py, which  *)
(*    fills the table protokoll_wissen in one transaction;                 *)
(*  - the question answering of src/query_agent.py, of the console and of  *)
(*    the GUI of src/main.py, a request being a record of its locals; the  *)
(*    GUI runs one task per button click on its one connection.            *)
(*                                                                         *)
(* An embedding is modelled by its length, a file content by a short      *)
(* string, a SHA256 digest by the string "sha256:" followed by the         *)
(* content it was computed from (injective, as the digest is collision     *)
(* resistant). The distance of a stored vector from the vector of a        *)
(* question is a number of tenths, chosen when the query is answered.      *)
(***************************************************************************)
EXTENDS Integers, Sequences, FiniteSets, TLC

\* ------------------------------------------------------------- constants
\* embedding VECTOR(768) of the table protokolle
D == 768
\* max_retries of get_embedding
max_retries == 3
\* LIMIT 3 of the nearest-neighbour SELECT
TOP_K == 3
\* time.sleep(2) at the end of the loop body of main
sleep_seconds == 2

\* ---------------------------------------------------------------- bounds
\* number of batch runs of the orchestrator
MaxRuns == 2
\* number of changes other processes make to the protocol files
MaxEdits == 1
\* number of interactive saves
MaxSaves == 3
\* number of runs of the seeding indexer
MaxSeedRuns == 2
\* number of rows the table protokoll_wissen may hold before the first run
MaxPrior == 2

\* number of rows the table holds when an interactive program starts
MaxStored == 4
\* number of button clicks the GUI takes
MaxClicks == 2
\* number of rows the table holds when a batch run starts on it
MaxHeld == 3

\* ------------------------------------------------------------ the inputs
\* os.listdir("protocols"): the files of the directory, in listing order
protocols_dir == <<"p1", "p2", "p3">>
Paths == {protocols_dir[i] : i \in 1..Len(protocols_dir)}
\* contents a protocol file can have
Contents == {"a", "b"}
\* a path that names no file (any more)
Missing == "<missing>"
\* Python's None
None == "<none>"
\* lengths of the vector the embedding provider may answer with
EmbLens == {0, D - 1, D, D + 1}
\* what one call of genai.embed_content does: it returns a vector, raises an
\* error whose message carries "429" / "Quota exceeded" / "Resource has been
\* exhausted", or raises any other error
RateLimit == [kind |-> "rate_limit", len |-> 0]
OtherError == [kind |-> "other_error", len |-> 0]
Vec(n) == [kind |-> "vec", len |-> n]
IsVec(r) == r.kind = "vec"
Responses == {RateLimit, OtherError} \cup {Vec(n) : n \in EmbLens}
\* what the database does with one statement: it executes it, rejects it
\* (the transaction is aborted), or the connection breaks
Faults == {"ok", "sqlerr", "connlost"}
\* source names and texts typed into the save dialog
Sources == {"gui_input", "m1"}
SaveTexts == {"note", "memo"}
\* initial_rules of the seeding indexer: four texts
initial_rules == <<"rule1", "rule2", "rule3", "rule4">>
Rules == {initial_rules[i] : i \in 1..Len(initial_rules)}
\* texts the table protokoll_wissen may hold from earlier use
PriorContents == {"rule1", "old"}
\* what the environment of a started process may lack: GEMINI_API_KEY,
\* DB_CONNECTION_URI, the certificate file, a database that takes the
\* connection
ConfigErrors == {"no_api_key", "no_uri", "no_cert", "connect_fails"}
Configs == {"ok"} \cup ConfigErrors
\* what is typed into the question field: nothing, or a question
Questions == {"", "q1"}
\* the distance of a stored vector from the vector of the question, in
\* tenths: 0.1 and 0.3
Distances == {1, 3}
\* what one call of model.generate_content does: it returns a response with
\* a text, or raises
GenResponses == {"text", "error"}

VARIABLES
    files,          \* path -> content of the file, or Missing
    edits,          \* changes made to the files so far
    store,          \* table protokolle: the committed rows, in insertion order
    conn,           \* state of the orchestrator's psycopg2 connection
    pc,             \* position of the orchestrator
    runs,           \* batch runs started
    protocol_files, \* files of the current run still to process
    protocol_text,  \* text loaded from the current file
    current_hash,   \* hash computed for the current file
    attempt,        \* loop variable of get_embedding
    calls,          \* answers of the provider within the current get_embedding
    sleeps,         \* delays slept within the current get_embedding
    embedding,      \* length of the vector get_embedding returned
    decision,       \* what the loop body logged as its decision on the current file
    outcome,        \* path -> what the current run logged as the result
    store_log,      \* what the last call of delete_protocol or store_protocol logged
    last_call,      \* the file of the last embedding call of the current run
    pause,          \* delays the run has slept since that call
    saves,          \* interactive saves made
    save_result,    \* return value of the last embed_and_store_text
    save_call,      \* its arguments and what the provider and the database did
    wissen,         \* table protokoll_wissen: the committed rows
    seed_pc,        \* position of the seeding indexer
    seed_runs,      \* runs of the seeding indexer started
    seed_tx,        \* the table as the open transaction of the run sees it
    seed_rules,     \* rules the loop of the run has still to process
    seed_outcome,   \* rule -> what the run printed for it
    seed_pause,     \* delays the seeding run has slept since its last embedding call
    config,         \* what the environment of the started process lacks, or "ok"
    app,            \* the interactive program that answers the requests
    tasks,          \* the requests of the interactive program, with their locals
    clicks          \* button clicks the GUI has taken

vars == <<files, edits, store, conn, pc, runs, protocol_files, protocol_text,
          current_hash, attempt, calls, sleeps, embedding,
          decision, outcome, store_log, saves, save_result, save_call,
          wissen, seed_pc, seed_runs, seed_tx, seed_rules, seed_outcome,
          config, app, tasks, clicks, last_call, pause, seed_pause>>

\* the variables of the batch orchestrator and of the interactive application
mainVars == <<files, edits, store, conn, pc, runs, protocol_files, protocol_text,
              current_hash, attempt, calls, sleeps, embedding,
              decision, outcome, store_log, saves, save_result, save_call, config,
              last_call, pause>>
\* the variables of the seeding indexer
seedVars == <<wissen, seed_pc, seed_runs, seed_tx, seed_rules, seed_outcome,
              seed_pause>>
\* the variables of the interactive programs
queryVars == <<app, tasks, clicks>>

\* -------------------------------------------------------- pure functions
\* calculate_file_hash: SHA256 of the file's bytes as a hex string
calculate_file_hash(content) == "sha256:" \o content

\* a backoff that multiplies instead of raising to the power
wait_time_Times(a) == 2 * a

\* wait_time = 2 ** attempt
wait_time(a) == 2 ^ a

\* a test that takes every error of the provider for a rate limit
IsRateLimitSignal_AnyError(r) == r.kind # "vec"

\* the "429" / quota test on the error message
IsRateLimitSignal(r) == r.kind = "rate_limit"

\* a retry test that gives up one attempt early
MayRetry_OneLess(a) == a < max_retries - 2

\* attempt < max_retries - 1: another attempt follows
MayRetry(a) == a < max_retries - 1

\* a DELETE that removes one row of the key only, the oldest
DeleteRows_Oldest(s, key) ==
    IF \A i \in 1..Len(s) : s[i].source_file # key THEN s
    ELSE LET first == CHOOSE i \in 1..Len(s) :
                        /\ s[i].source_file = key
                        /\ \A j \in 1..(i - 1) : s[j].source_file # key
         IN  [k \in 1..(Len(s) - 1) |-> IF k < first THEN s[k] ELSE s[k + 1]]

\* rows WHERE metadata->>'source_file' = key
RowsOf(s, key) == {i \in 1..Len(s) : s[i].source_file = key}

\* DELETE FROM protokolle WHERE metadata->>'source_file' = key
DeleteRows(s, key) == SelectSeq(s, LAMBDA r : r.source_file # key)

\* store_protocol without its test for an empty list
NotEmbedding_Never(n) == FALSE

\* "not embedding": the list is empty
NotEmbedding(n) == n = 0

\* a column declared without its dimension takes every non-empty vector
SchemaAccepts_AnyLength(n) == n > 0

\* embedding VECTOR(768): the column accepts vectors of this length only
SchemaAccepts(n) == n = D

\* the row an INSERT INTO protokolle (text, embedding, metadata) writes
Row(text, n, source_file, content_hash, source) ==
    [text |-> text, dim |-> n, source_file |-> source_file,
     content_hash |-> content_hash, source |-> source]

\* an INSERT ... ON CONFLICT on the source name: the new row takes the place
\* of a row saved under the same name
InsertRow_Upsert(s, row) ==
    Append(SelectSeq(s, LAMBDA r : r.source # row.source), row)

\* INSERT INTO protokolle (text, embedding, metadata) of the interactive
\* save: the row is added to the table
InsertRow(s, row) == Append(s, row)

\* a start that does not test GEMINI_API_KEY: genai.configure takes any key
initialize_clients_NoKeyTest(c) ==
    IF c \in {"no_uri", "no_cert", "connect_fails"} THEN "exit" ELSE "connected"

\* initialize_clients: sys.exit(1) when a variable is missing, when the
\* certificate is missing and when psycopg2.connect raises; the connection
\* otherwise
initialize_clients(c) ==
    IF c \in {"no_api_key", "no_uri"} THEN "exit"
    ELSE IF c = "no_cert" THEN "exit"
    ELSE IF c = "connect_fails" THEN "exit"
    ELSE "connected"

\* a statement on the connection raises: the connection is broken, the
\* transaction is already aborted, or the statement itself fails
Raises(c, fault) == c \in {"lost", "failed"} \/ fault # "ok"

\* the connection after cur.execute(...)
AfterExecute(c, fault) ==
    IF c = "lost" THEN "lost"
    ELSE IF c = "failed" THEN "failed"
    ELSE IF fault = "connlost" THEN "lost"
    ELSE IF fault = "sqlerr" THEN "failed"
    ELSE "intrans"

\* ------------------------------------------------------------------ Init
\* the programs before their first step, in a directory with the files fs
\* and on a table that holds the rows st; a names the interactive program
InitState(fs, st, a) ==
    /\ files = fs
    /\ edits = 0
    /\ store = st
    /\ conn = "none"
    /\ pc = "idle"
    /\ runs = 0
    /\ protocol_files = <<>>
    /\ protocol_text = None
    /\ current_hash = None
    /\ attempt = 0
    /\ calls = <<>>
    /\ sleeps = <<>>
    /\ embedding = 0
    /\ decision = None
    /\ outcome = [p \in Paths |-> "pending"]
    /\ store_log = None
    /\ saves = 0
    /\ save_result = None
    /\ save_call = <<>>
    /\ config = "ok"
    /\ app = a
    /\ tasks = <<>>
    /\ clicks = 0
    /\ last_call = None
    /\ pause = <<>>

\* the same with three protocol files of one content
InitProgram(st, a) == InitState([p \in Paths |-> "a"], st, a)

InitMain == InitProgram(<<>>, None)

\* the seeding indexer before its first run, on a table holding the rows prior
InitSeeder(prior) ==
    /\ wissen = prior
    /\ seed_pc = "idle"
    /\ seed_runs = 0
    /\ seed_tx = <<>>
    /\ seed_rules = <<>>
    /\ seed_outcome = [r \in Rules |-> "pending"]
    /\ seed_pause = <<>>

Init == InitMain /\ InitSeeder(<<>>)

\* -------------------------------------------- the orchestrator (indexer.py)
\* the file the loop body is working on
filepath == Head(protocol_files)

\* what the run remembers of its last embedding call
pacing == <<last_call, pause>>

\* the locals of the loop body
locals == <<protocol_text, current_hash, attempt, calls, sleeps, embedding, decision>>

\* a loop body whose "continue" is missing: it goes on with the same file
NextDocument_NoContinue ==
    /\ protocol_files' = protocol_files
    /\ pc' = "embed"
    /\ protocol_text' = protocol_text
    /\ current_hash' = current_hash
    /\ attempt' = 0
    /\ calls' = <<>>
    /\ sleeps' = <<>>
    /\ embedding' = 0
    /\ decision' = decision

\* the end of the loop body: the locals are dropped and the loop goes on
\* to the next file, or ends
NextDocument ==
    /\ protocol_files' = Tail(protocol_files)
    /\ pc' = IF Len(protocol_files) > 1 THEN "load" ELSE "close"
    /\ protocol_text' = None
    /\ current_hash' = None
    /\ attempt' = 0
    /\ calls' = <<>>
    /\ sleeps' = <<>>
    /\ embedding' = 0
    /\ decision' = None

\* an exception leaves main: the process ends where it is
Crash ==
    /\ pc' = "crashed"
    /\ UNCHANGED <<protocol_files, locals>>

\* main up to the loop: initialize_clients and the directory listing; a
\* start that ends in sys.exit(1) is not counted as a batch run
BeginRun ==
    /\ pc \in {"idle", "done", "crashed", "exited"}
    /\ runs < MaxRuns
    /\ \E c \in Configs :
        /\ config' = c
        /\ IF initialize_clients(c) = "exit"
           THEN /\ pc' = "exited"
                /\ conn' = "none"
                /\ protocol_files' = <<>>
                /\ UNCHANGED runs
           ELSE /\ runs' = runs + 1
                /\ conn' = "idle"
                /\ protocol_files' = SelectSeq(protocols_dir,
                                               LAMBDA p : files[p] # Missing)
                /\ pc' = IF protocol_files' = <<>> THEN "close" ELSE "load"
    /\ outcome' = [p \in Paths |-> "pending"]
    /\ protocol_text' = None
    /\ current_hash' = None
    /\ attempt' = 0
    /\ calls' = <<>>
    /\ sleeps' = <<>>
    /\ embedding' = 0
    /\ decision' = None
    /\ last_call' = None
    /\ pause' = <<>>
    /\ UNCHANGED <<files, edits, store, store_log, saves, save_result, save_call, seedVars, queryVars>>

\* load_protocol_data and the test of its result
LoadDocument ==
    /\ pc = "load"
    /\ IF files[filepath] = Missing
       THEN /\ outcome' = [outcome EXCEPT ![filepath] = "failed"]
            /\ NextDocument
       ELSE /\ protocol_text' = files[filepath]
            /\ pc' = "hash"
            /\ UNCHANGED <<outcome, protocol_files, current_hash,
                           attempt, calls, sleeps, embedding, decision>>
    /\ UNCHANGED <<files, edits, store, conn, runs, store_log, saves, save_result, save_call, seedVars, queryVars, config, pacing>>

\* current_hash = calculate_file_hash(filepath): a second read of the file,
\* outside any try
HashDocument ==
    /\ pc = "hash"
    /\ IF files[filepath] = Missing
       THEN Crash
       ELSE /\ current_hash' = calculate_file_hash(files[filepath])
            /\ pc' = "lookup"
            /\ UNCHANGED <<protocol_files, protocol_text,
                           attempt, calls, sleeps, embedding, decision>>
    /\ UNCHANGED <<files, edits, store, conn, runs, outcome, store_log, saves, save_result, save_call, seedVars, queryVars, config, pacing>>

\* get_stored_hash: the content_hash of one row of the file (fetchone of a
\* SELECT without ORDER BY), None when there is none and None on any error
get_stored_hash(fault, i) ==
    IF Raises(conn, fault) \/ i = 0 THEN None ELSE store[i].content_hash

\* the rows fetchone may deliver: 0 stands for no row
FetchOne(key) == IF RowsOf(store, key) = {} THEN {0} ELSE RowsOf(store, key)

\* the decision on the two hashes
Decide(stored, current) ==
    IF stored = current THEN "skip"
    ELSE IF stored # None THEN "replace"
    ELSE "insert"

\* stored_hash = get_stored_hash(conn, source_file) and the decision
LookupAndDecide ==
    /\ pc = "lookup"
    /\ \E fault \in Faults, i \in FetchOne(filepath) :
        LET d == Decide(get_stored_hash(fault, i), current_hash)
        IN  /\ conn' = AfterExecute(conn, fault)
            /\ IF d = "skip"
               THEN /\ outcome' = [outcome EXCEPT ![filepath] = "skipped"]
                    /\ NextDocument
               ELSE /\ decision' = d
                    /\ pc' = IF d = "replace" THEN "delete" ELSE "embed"
                    /\ UNCHANGED <<outcome, protocol_files, protocol_text,
                                   current_hash, attempt, calls, sleeps, embedding>>
    /\ UNCHANGED <<files, edits, store, runs, store_log, saves, save_result, save_call, seedVars, queryVars, config, pacing>>

\* delete_protocol: DELETE and commit, or rollback on any error
delete_protocol ==
    /\ pc = "delete"
    /\ \E fault \in Faults :
        IF ~Raises(conn, fault)
        THEN /\ store' = DeleteRows(store, filepath)
             /\ conn' = "idle"
             /\ store_log' = "deleted"
             /\ pc' = "embed"
             /\ UNCHANGED <<protocol_files, locals>>
        ELSE IF AfterExecute(conn, fault) = "lost"
        THEN /\ conn' = "lost"
             /\ store_log' = "delete_error"
             /\ Crash
             /\ UNCHANGED store
        ELSE /\ conn' = "idle"
             /\ store_log' = "delete_error"
             /\ pc' = "embed"
             /\ UNCHANGED <<store, protocol_files, locals>>
    /\ UNCHANGED <<files, edits, runs, outcome, saves, save_result, save_call, seedVars, queryVars, config, pacing>>

\* one pass of the loop of get_embedding: one call of genai.embed_content;
\* the loop ends with attempt = max_retries
get_embedding ==
    /\ pc = "embed"
    /\ \E r \in Responses :
        /\ calls' = Append(calls, r)
        /\ last_call' = filepath
        /\ IF IsVec(r)
           THEN /\ embedding' = r.len
                /\ pc' = "store"
                /\ pause' = <<>>
                /\ UNCHANGED <<attempt, sleeps>>
           ELSE IF IsRateLimitSignal(r) /\ MayRetry(attempt)
           THEN /\ sleeps' = Append(sleeps, wait_time(attempt))
                /\ pause' = <<wait_time(attempt)>>
                /\ attempt' = attempt + 1
                /\ pc' = IF attempt + 1 < max_retries THEN "embed" ELSE "store"
                /\ embedding' = 0
           ELSE /\ embedding' = 0
                /\ pc' = "store"
                /\ pause' = <<>>
                /\ UNCHANGED <<attempt, sleeps>>
    /\ UNCHANGED <<files, edits, store, conn, runs, protocol_files, protocol_text,
                   current_hash, decision, outcome, store_log, saves, save_result, save_call, seedVars, queryVars, config>>

\* store_protocol, then time.sleep(2) and the next file
store_protocol ==
    /\ pc = "store"
    /\ IF NotEmbedding(embedding)
       THEN /\ outcome' = [outcome EXCEPT ![filepath] = "failed"]
            /\ store_log' = "empty_embedding"
            /\ pause' = Append(pause, sleep_seconds)
            /\ NextDocument
            /\ UNCHANGED <<store, conn>>
       ELSE \E fault \in Faults :
            IF ~Raises(conn, fault) /\ SchemaAccepts(embedding)
            THEN /\ store' = Append(store, Row(protocol_text, embedding, filepath,
                                               current_hash, None))
                 /\ conn' = "idle"
                 /\ outcome' = [outcome EXCEPT ![filepath] =
                        IF decision = "replace" THEN "replaced" ELSE "inserted"]
                 /\ store_log' = "stored"
                 /\ pause' = Append(pause, sleep_seconds)
                 /\ NextDocument
            ELSE IF AfterExecute(conn, fault) = "lost"
            THEN /\ conn' = "lost"
                 /\ store_log' = "error"
                 /\ Crash
                 /\ UNCHANGED <<store, outcome, pause>>
            ELSE /\ conn' = "idle"
                 /\ outcome' = [outcome EXCEPT ![filepath] = "failed"]
                 /\ store_log' = IF Raises(conn, fault) THEN "error" ELSE "dimension_error"
                 /\ pause' = Append(pause, sleep_seconds)
                 /\ NextDocument
                 /\ UNCHANGED store
    /\ UNCHANGED <<files, edits, runs, saves, save_result, save_call, seedVars, queryVars, config, last_call>>

\* the end of main: conn.close()
CloseConnection ==
    /\ pc = "close"
    /\ conn' = "closed"
    /\ pc' = "done"
    /\ UNCHANGED <<files, edits, store, runs, protocol_files, locals,
                   outcome, store_log, saves, save_result, save_call, seedVars, queryVars, config, pacing>>

\* ------------------------------------------------------- the environment
\* the files whose next read is the next thing the orchestrator does with
\* them: a change of a file shows at its next read only, so it is taken
\* right before that read
Observed ==
    IF pc \in {"idle", "done", "crashed", "exited"} THEN Paths
    ELSE IF pc \in {"load", "hash"} THEN {filepath}
    ELSE {}

\* another process rewrites, removes or creates a protocol file
EditFile ==
    /\ edits < MaxEdits
    /\ \E p \in Observed, c \in Contents \cup {Missing} :
        /\ files[p] # c
        /\ files' = [files EXCEPT ![p] = c]
    /\ edits' = edits + 1
    /\ UNCHANGED <<store, conn, pc, runs, protocol_files, locals,
                   outcome, store_log, saves, save_result, save_call, seedVars, queryVars, config, pacing>>

\* --------------------------------- the interactive save (main.py, console)
\* embed_and_store_text(text, source): one embedding call and one INSERT on
\* the application's own connection, every error caught
embed_and_store_text ==
    /\ saves < MaxSaves
    /\ \E text \in SaveTexts, source \in Sources, r \in Responses, fault \in Faults :
        LET ok == IsVec(r) /\ fault = "ok" /\ SchemaAccepts(r.len)
        IN  /\ store' = IF ok THEN InsertRow(store, Row(text, r.len, None, None, source))
                        ELSE store
            /\ save_result' = IF ok THEN "True" ELSE "False"
            /\ save_call' = <<text, source, r, fault>>
    /\ saves' = saves + 1
    /\ UNCHANGED <<files, edits, conn, pc, runs, protocol_files, locals, outcome,
                   store_log, seedVars, queryVars, config, pacing>>

Next ==
    \/ BeginRun
    \/ LoadDocument
    \/ HashDocument
    \/ LookupAndDecide
    \/ delete_protocol
    \/ get_embedding
    \/ store_protocol
    \/ CloseConnection
    \/ EditFile

\* the batch orchestrator and the processes that change the protocol files
Spec == Init /\ [][Next]_vars

\* the interactive application on the same table
NextSave ==
    \/ embed_and_store_text

SpecSave == Init /\ [][NextSave]_vars

\* ------------------------------- a batch run on what earlier use has left
\* the directory: the first file has any content or is empty, the second
\* has its first content, the third is gone
LeftFiles ==
    {[p \in Paths |-> IF p = protocols_dir[1] THEN c
                      ELSE IF p = protocols_dir[2] THEN "a"
                      ELSE Missing] : c \in Contents \cup {""}}

\* the rows earlier runs and saves have written: rows of the first file for
\* each of its contents (two of them stay after a failed delete), a row of
\* the second file, a saved text
HeldRows ==
    {Row(c, D, protocols_dir[1], calculate_file_hash(c), None) : c \in Contents}
        \cup {Row("a", D, protocols_dir[2], calculate_file_hash("a"), None),
              Row("note", D, None, None, "m1")}

\* sequences of at most n elements of S
SeqUpTo(S, n) == UNION {[1..k -> S] : k \in 0..n}

InitRerun ==
    \E fs \in LeftFiles, st \in SeqUpTo(HeldRows, MaxHeld) :
        InitState(fs, st, None) /\ InitSeeder(<<>>)

\* the one start of the orchestrator
Rerun == runs = 0 /\ BeginRun

NextRerun ==
    \/ Rerun
    \/ LoadDocument
    \/ HashDocument
    \/ LookupAndDecide
    \/ delete_protocol
    \/ get_embedding
    \/ store_protocol
    \/ CloseConnection

\* one batch run over a directory and a table that were in use before
SpecRerun == InitRerun /\ [][NextRerun]_vars

\* ----------------- the seeding indexer (protokollfuehrer-agent/indexer.py)
\* a row of protokoll_wissen (content, embedding)
WissenRow(content, n) == [content |-> content, dim |-> n]

\* embedding vector(768) of protokoll_wissen
WissenAccepts(n) == n = D

\* an exception on a connection in autocommit mode: what the run has
\* deleted and inserted so far stays
SeedAbort_Autocommit ==
    /\ seed_pc' = "done"
    /\ wissen' = seed_tx
    /\ seed_tx' = <<>>
    /\ UNCHANGED seed_rules

\* an exception inside "with psycopg2.connect(...) as conn": the transaction
\* is rolled back, the except clause prints the error and main returns
SeedAbort ==
    /\ seed_pc' = "done"
    /\ seed_tx' = <<>>
    /\ UNCHANGED <<wissen, seed_rules>>

\* main up to the loop: connect, setup_database, DELETE FROM protokoll_wissen
SeedBegin ==
    /\ seed_pc \in {"idle", "done", "no_connection"}
    /\ seed_runs < MaxSeedRuns
    /\ seed_runs' = seed_runs + 1
    /\ seed_outcome' = [r \in Rules |-> "pending"]
    /\ seed_pause' = <<>>
    /\ \E fault \in {"ok", "connlost"} :
        IF fault = "ok"
        THEN /\ seed_tx' = <<>>
             /\ seed_rules' = initial_rules
             /\ seed_pc' = "rule"
             /\ UNCHANGED wissen
        ELSE /\ seed_rules' = initial_rules
             /\ seed_pc' = "no_connection"
             /\ seed_tx' = <<>>
             /\ UNCHANGED wissen
    /\ UNCHANGED <<mainVars, queryVars>>

\* one pass of the loop: embed_content and INSERT for one rule; the loop
\* has no time.sleep, so nothing was slept since the call
SeedRule ==
    /\ seed_pc = "rule"
    /\ \E r \in Responses, fault \in Faults :
        LET rule_text == Head(seed_rules)
        IN  IF IsVec(r) /\ fault = "ok" /\ WissenAccepts(r.len)
            THEN /\ seed_tx' = Append(seed_tx, WissenRow(rule_text, r.len))
                 /\ seed_outcome' = [seed_outcome EXCEPT ![rule_text] = "inserted"]
                 /\ seed_rules' = Tail(seed_rules)
                 /\ seed_pc' = IF Len(seed_rules) > 1 THEN "rule" ELSE "commit"
                 /\ UNCHANGED wissen
            ELSE /\ seed_outcome' = [seed_outcome EXCEPT ![rule_text] = "failed"]
                 /\ SeedAbort
    /\ seed_pause' = <<>>
    /\ UNCHANGED <<mainVars, queryVars, seed_runs>>

\* conn.commit() after the loop
SeedCommit ==
    /\ seed_pc = "commit"
    /\ \E fault \in {"ok", "connlost"} :
        IF fault = "ok"
        THEN /\ wissen' = seed_tx
             /\ seed_pc' = "done"
             /\ seed_tx' = <<>>
             /\ UNCHANGED seed_rules
        ELSE SeedAbort
    /\ UNCHANGED <<mainVars, queryVars, seed_runs, seed_outcome, seed_pause>>

NextSeed ==
    \/ SeedBegin
    \/ SeedRule
    \/ SeedCommit

\* the seeding indexer is started on a table that may hold earlier rows
InitSeed ==
    \E prior \in SeqUpTo({WissenRow(c, D) : c \in PriorContents}, MaxPrior) :
        InitMain /\ InitSeeder(prior)

SpecSeed == InitSeed /\ [][NextSeed]_vars

\* ------- the interactive programs (query_agent.py, main.py, console)
\* A request is a record of its locals. The programs differ in who starts a
\* request: query_agent.py answers one fixed question per start, the console
\* one request after the other, the GUI one task per button click, every
\* task on the one asyncpg connection.

\* os.path.splitext(os.path.basename(filepath))[0]: the file name without
\* its directory and extension
meeting_id(path) == "stem:" \o path

\* the metadata column of a row
Metadata(row) ==
    [source_file |-> row.source_file, content_hash |-> row.content_hash,
     source |-> row.source]

\* metadata.get('meeting_id', 'N/A'): load_protocol_data sets the key for
\* the rows of the batch indexer only
MetaMeetingId(m) ==
    IF m.source_file = None THEN "N/A" ELSE meeting_id(m.source_file)

\* metadata.get('date', 'N/A'): nothing in the repository sets the key
MetaDate(m) == "N/A"

\* the locals of a request that has just been started; found is the number
\* of records the SELECT has returned, -1 as long as it has returned nothing;
\* emb_calls and gen_calls hold what the calls of the embedding provider and
\* of the generative model did
NewTask(kind, input, source) ==
    [kind |-> kind, pc |-> "embed", input |-> input, source |-> source,
     emb_calls |-> <<>>, embedding |-> 0, dist |-> <<>>, found |-> -1, retrieved |-> <<>>,
     context |-> <<>>, db_calls |-> 0, gen_calls |-> <<>>, answer |-> None]

\* a request that ends without a word to the user
Finish_NoAnswer(task, answer) == [task EXCEPT !.pc = "done"]

\* the request returns: answer is what it hands or shows to the user
Finish(task, answer) == [task EXCEPT !.pc = "done", !.answer = answer]

\* a request that takes a failed generation for an answer
AnswerOf_Swallowed(g) == "generated"

\* return response.text, or the message of the except clause
AnswerOf(g) == IF g = "text" THEN "generated" ELSE "error"

\* a test that takes every result for a non-empty one
NoRecords_Never(results) == FALSE

\* "if not results" / "if not retrieved_records"
NoRecords(results) == results = <<>>

\* the least of a non-empty set of numbers
Least(S) == CHOOSE m \in S : \A n \in S : m <= n

\* a SELECT without ORDER BY: the first k rows as the table holds them
NearestRows_TableOrder(dist, S, k) ==
    {[n \in 1..Least({k, Cardinality(S)}) |-> n]}

\* ORDER BY embedding <-> query LIMIT k (and <=> in main.py): the results
\* the database may deliver, as sequences of row numbers; rows at the same
\* distance come in any order
RECURSIVE NearestRows(_, _, _)
NearestRows(dist, S, k) ==
    IF k = 0 \/ S = {} THEN {<<>>}
    ELSE LET m == Least({dist[i] : i \in S})
         IN  UNION {{<<i>> \o rest : rest \in NearestRows(dist, S \ {i}, k - 1)} :
                        i \in {j \in S : dist[j] = m}}

\* the SELECT raises: the statement fails, the vector of the question is
\* empty, or it is compared with a stored vector of another length
QueryRaises(n, st, fault) ==
    fault # "ok" \/ n = 0 \/ (st # <<>> /\ n # D)

\* a row of the result in query_agent.py: SELECT text, metadata
AgentRecord(i, row) == [row |-> i, text |-> row.text, metadata |-> Metadata(row)]

\* a row of the result in main.py: SELECT text, metadata->>'source' AS
\* source, 1 - (embedding <=> $1) AS similarity (in tenths)
GuiRecord(i, row, d) ==
    [row |-> i, text |-> row.text, source |-> row.source, similarity |-> 10 - d]

\* f"Protokoll ({meeting_id}, {date}): {text}"
AgentContextPart(rec) ==
    [Protokoll |-> <<MetaMeetingId(rec.metadata), MetaDate(rec.metadata)>>,
     text |-> rec.text]

\* f"Quelle: {source}, Aehnlichkeit: {similarity:.4f}\n---\n{text}" with
\* source = rec['source'] or 'Unbekannt'
GuiContextPart(rec) ==
    [Quelle |-> IF rec.source = None THEN "Unbekannt" ELSE rec.source,
     Aehnlichkeit |-> rec.similarity,
     text |-> rec.text]

\* every request of the program has returned
AllDone == \A t \in DOMAIN tasks : tasks[t].pc = "done"

\* a call on the connection is in progress
Busy == \E t \in DOMAIN tasks : tasks[t].pc = "db_wait"

\* the distances of the stored vectors from the vector of a question
Dists == [1..Len(store) -> Distances]

\* query_agent.py main: one start of the program answers the one question
query_agent_main ==
    /\ app = "query_agent"
    /\ AllDone
    /\ tasks' = <<NewTask("query", "q1", None)>>
    /\ UNCHANGED <<mainVars, seedVars, app, clicks>>

\* get_embedding of query_agent.py and the test of its result
query_agent_get_embedding ==
    /\ app = "query_agent"
    /\ \E t \in DOMAIN tasks, r \in Responses :
        LET task == [tasks[t] EXCEPT !.emb_calls = Append(@, r.kind)]
            query_embedding == IF IsVec(r) THEN r.len ELSE 0
        IN  /\ task.pc = "embed"
            /\ tasks' = [tasks EXCEPT ![t] =
                    IF NotEmbedding(query_embedding)
                    THEN Finish(task, "no_embedding")
                    ELSE [task EXCEPT !.embedding = query_embedding, !.pc = "db"]]
    /\ UNCHANGED <<mainVars, seedVars, app, clicks>>

\* retrieve_and_generate: the SELECT, the test of its result, the context
query_agent_select ==
    /\ app = "query_agent"
    /\ \E t \in DOMAIN tasks, fault \in Faults, dist \in Dists :
        LET task == [tasks[t] EXCEPT !.db_calls = @ + 1]
        IN  /\ task.pc = "db"
            /\ IF QueryRaises(task.embedding, store, fault)
               THEN tasks' = [tasks EXCEPT ![t] = Finish(task, "error")]
               ELSE \E rows \in NearestRows(dist, 1..Len(store), TOP_K) :
                    LET results == [n \in 1..Len(rows) |->
                                        AgentRecord(rows[n], store[rows[n]])]
                    IN  tasks' = [tasks EXCEPT ![t] =
                            IF NoRecords(results)
                            THEN Finish([task EXCEPT !.found = Len(results)],
                                        "no_context")
                            ELSE [task EXCEPT
                                    !.dist = dist,
                                    !.found = Len(results),
                                    !.retrieved = results,
                                    !.context = [n \in 1..Len(results) |->
                                                    AgentContextPart(results[n])],
                                    !.pc = "generate"]]
    /\ UNCHANGED <<mainVars, seedVars, app, clicks>>

\* retrieve_and_generate: model.generate_content(prompt) and response.text
query_agent_generate ==
    /\ app = "query_agent"
    /\ \E t \in DOMAIN tasks, g \in GenResponses :
        LET task == [tasks[t] EXCEPT !.gen_calls = Append(@, g)]
        IN  /\ task.pc = "generate"
            /\ tasks' = [tasks EXCEPT ![t] =
                    Finish(task, AnswerOf(g))]
    /\ UNCHANGED <<mainVars, seedVars, app, clicks>>

\* the menu loop of the console, choice 2: handle_query_input reads the
\* question
handle_query_input ==
    /\ app = "console"
    /\ AllDone
    /\ \E question \in Questions :
        tasks' = <<IF question = ""
                   THEN Finish(NewTask("query", question, None), "empty_input")
                   ELSE NewTask("query", question, None)>>
    /\ UNCHANGED <<mainVars, seedVars, app, clicks>>

\* the button FRAGE STELLEN: asyncio.create_task(handle_rag_query())
handle_rag_query ==
    /\ app = "gui"
    /\ clicks < MaxClicks
    /\ clicks' = clicks + 1
    /\ \E question \in Questions :
        tasks' = Append(tasks,
                    IF question = ""
                    THEN Finish(NewTask("query", question, None), "empty_input")
                    ELSE NewTask("query", question, None))
    /\ UNCHANGED <<mainVars, seedVars, app>>

\* the button SPEICHERN: asyncio.create_task(handle_save_manifest())
handle_save_manifest ==
    /\ app = "gui"
    /\ clicks < MaxClicks
    /\ clicks' = clicks + 1
    /\ \E text \in SaveTexts \cup {""}, source \in Sources :
        tasks' = Append(tasks,
                    IF text = ""
                    THEN Finish(NewTask("save", text, None), "empty_input")
                    ELSE NewTask("save", text, source))
    /\ UNCHANGED <<mainVars, seedVars, app>>

\* perform_rag_query (handle_query_input of the console has the same
\* statements): the embedding of the question
embed_question ==
    /\ app \in {"console", "gui"}
    /\ \E t \in DOMAIN tasks, r \in Responses :
        LET task == [tasks[t] EXCEPT !.emb_calls = Append(@, r.kind)]
        IN  /\ task.kind = "query"
            /\ task.pc = "embed"
            /\ tasks' = [tasks EXCEPT ![t] =
                    IF IsVec(r)
                    THEN [task EXCEPT !.embedding = r.len, !.pc = "db"]
                    ELSE Finish(task, "error")]
    /\ UNCHANGED <<mainVars, seedVars, app, clicks>>

\* embed_and_store_text as a task of the GUI: the embedding of the text
embed_text ==
    /\ app = "gui"
    /\ \E t \in DOMAIN tasks, r \in Responses :
        LET task == [tasks[t] EXCEPT !.emb_calls = Append(@, r.kind)]
        IN  /\ task.kind = "save"
            /\ task.pc = "embed"
            /\ tasks' = [tasks EXCEPT ![t] =
                    IF IsVec(r)
                    THEN [task EXCEPT !.embedding = r.len, !.pc = "db"]
                    ELSE Finish(task, "error")]
    /\ UNCHANGED <<mainVars, seedVars, app, clicks>>

\* await self.conn.fetch(...) / await self.conn.execute(...): the call is
\* sent; a connection that has another call in progress raises
\* InterfaceError
conn_call ==
    /\ app \in {"console", "gui"}
    /\ \E t \in DOMAIN tasks :
        LET task == [tasks[t] EXCEPT !.db_calls = @ + 1]
        IN  /\ task.pc = "db"
            /\ tasks' = [tasks EXCEPT ![t] =
                    IF Busy THEN Finish(task, "error")
                    ELSE [task EXCEPT !.pc = "db_wait"]]
    /\ UNCHANGED <<mainVars, seedVars, app, clicks>>

\* perform_rag_query: the result of the SELECT, the test for no records
\* and the context
fetch_result ==
    /\ app \in {"console", "gui"}
    /\ \E t \in DOMAIN tasks, fault \in Faults, dist \in Dists :
        LET task == tasks[t]
        IN  /\ task.kind = "query"
            /\ task.pc = "db_wait"
            /\ IF QueryRaises(task.embedding, store, fault)
               THEN tasks' = [tasks EXCEPT ![t] = Finish(task, "error")]
               ELSE \E rows \in NearestRows(dist, 1..Len(store), TOP_K) :
                    LET retrieved_records ==
                            [n \in 1..Len(rows) |->
                                GuiRecord(rows[n], store[rows[n]], dist[rows[n]])]
                    IN  tasks' = [tasks EXCEPT ![t] =
                            IF NoRecords(retrieved_records)
                            THEN Finish([task EXCEPT !.found = Len(retrieved_records)],
                                        "no_context")
                            ELSE [task EXCEPT
                                    !.dist = dist,
                                    !.found = Len(retrieved_records),
                                    !.retrieved = retrieved_records,
                                    !.context = [n \in 1..Len(retrieved_records) |->
                                                    GuiContextPart(retrieved_records[n])],
                                    !.pc = "generate"]]
    /\ UNCHANGED <<mainVars, seedVars, app, clicks>>

\* embed_and_store_text as a task of the GUI: the result of the INSERT
insert_result ==
    /\ app = "gui"
    /\ \E t \in DOMAIN tasks, fault \in Faults :
        LET task == tasks[t]
            ok == fault = "ok" /\ SchemaAccepts(task.embedding)
        IN  /\ task.kind = "save"
            /\ task.pc = "db_wait"
            /\ store' = IF ok
                        THEN InsertRow(store, Row(task.input, task.embedding,
                                                  None, None, task.source))
                        ELSE store
            /\ tasks' = [tasks EXCEPT ![t] =
                    Finish(task, IF ok THEN "saved" ELSE "error")]
    /\ UNCHANGED <<files, edits, conn, pc, runs, protocol_files, locals, outcome,
                   store_log, saves, save_result, save_call, config, pacing, seedVars, app, clicks>>

\* perform_rag_query: model.generate_content and response.text
generate_answer ==
    /\ app \in {"console", "gui"}
    /\ \E t \in DOMAIN tasks, g \in GenResponses :
        LET task == [tasks[t] EXCEPT !.gen_calls = Append(@, g)]
        IN  /\ task.kind = "query"
            /\ task.pc = "generate"
            /\ tasks' = [tasks EXCEPT ![t] =
                    Finish(task, AnswerOf(g))]
    /\ UNCHANGED <<mainVars, seedVars, app, clicks>>

\* rows the batch indexer and the interactive saves have written
StoredRows ==
    {Row("a", D, p, calculate_file_hash("a"), None) : p \in {"p1"}}
        \cup {Row("note", D, None, None, source) : source \in Sources}

\* a program that answers one request after the other is started on a
\* table that holds rows
InitQuery ==
    \E st \in SeqUpTo(StoredRows, MaxStored), a \in {"query_agent", "console"} :
        InitProgram(st, a) /\ InitSeeder(<<>>)

NextQuery ==
    \/ query_agent_main
    \/ query_agent_get_embedding
    \/ query_agent_select
    \/ query_agent_generate
    \/ handle_query_input
    \/ embed_question
    \/ conn_call
    \/ fetch_result
    \/ generate_answer

\* query_agent.py and the console
SpecQuery == InitQuery /\ [][NextQuery]_vars

\* the GUI is started on an empty table
InitGui == InitProgram(<<>>, "gui") /\ InitSeeder(<<>>)

NextGui ==
    \/ handle_rag_query
    \/ handle_save_manifest
    \/ embed_question
    \/ embed_text
    \/ conn_call
    \/ fetch_result
    \/ insert_result
    \/ generate_answer

\* the GUI and its tasks
SpecGui == InitGui /\ [][NextGui]_vars

\* ================================================================ claims
\* the rows of the table that belong to the file p
Records(p) == RowsOf(store, p)

\* the step of the orchestrator that looks up the stored hash and decides
LookupStep == pc = "lookup" /\ pc' # "lookup"

\* C1: a document whose one stored record carries the hash of its current
\* content (it was indexed before with the same bytes) is decided 'skip'
\* when it is indexed again, and the table keeps exactly that one record.
C1_Idempotence ==
    [][(/\ LookupStep
        /\ Cardinality(Records(filepath)) = 1
        /\ \A i \in Records(filepath) : store[i].content_hash = current_hash)
       => (/\ outcome'[filepath] = "skipped"
           /\ store' = store)]_vars

\* C2: in every reachable state the table holds at most one record per
\* source file.
C2_OneRecordPerKey == \A p \in Paths : Cardinality(Records(p)) <= 1

\* C3: a document that has a stored record with another hash than its current
\* one is decided 'replace', and when its processing ends the table holds a
\* record with the current hash for it and no record with another hash.
C3_ChangeDetection ==
    [][/\ (/\ LookupStep
           /\ Records(filepath) # {}
           /\ \A i \in Records(filepath) : store[i].content_hash # current_hash)
          => pc' = "delete"
       /\ (/\ pc \in {"delete", "embed", "store"}
           /\ decision = "replace"
           /\ pc' \in {"load", "close", "crashed"})
          => (/\ \E i \in RowsOf(store', filepath) :
                    store'[i].content_hash = current_hash
              /\ \A i \in RowsOf(store', filepath) :
                    store'[i].content_hash = current_hash)]_vars

\* C4: when the lookup of the stored hash fails, the orchestrator does not go
\* on as for a document that has no record (the 'insert' path).
C4_LookupFailureSurfaced ==
    [][(LookupStep /\ conn' \in {"failed", "lost"}) => pc' # "embed"]_vars

\* every call the provider answered within this get_embedding was a rate limit
AllRateLimited ==
    /\ calls # <<>>
    /\ \A i \in 1..Len(calls) : calls[i].kind = "rate_limit"

\* C5: when every embedding call for a document is answered with a rate
\* limit, get_embedding returns the empty vector after exactly 3 calls, never
\* makes a fourth, and the orchestrator does not end with an exception.
C5_RetryBound ==
    /\ (pc = "embed" /\ AllRateLimited) => Len(calls) < 3
    /\ (pc = "store" /\ AllRateLimited) => (Len(calls) = 3 /\ embedding = 0)
    /\ (pc = "crashed") => ~AllRateLimited

\* C5 witness: the generator has returned after three rate limits
C5_Witness == pc = "store" /\ AllRateLimited /\ Len(calls) = 3

\* C6: a failure that is no rate limit ends get_embedding at once: it is the
\* last call, the result is the empty vector, and no sleep follows it (the
\* sleeps are those of the rate limits before it).
C6_NoRetryOnOtherError ==
    \A i \in 1..Len(calls) :
        calls[i].kind = "other_error"
            => (/\ i = Len(calls)
                /\ pc # "embed"
                /\ embedding = 0
                /\ Len(sleeps) = i - 1)

\* C6 witness: another error on the third call, after two rate limits
C6_Witness ==
    /\ pc = "store"
    /\ Len(calls) = 3
    /\ calls[3].kind = "other_error"
    /\ calls[1].kind = "rate_limit"

\* the sum of a sequence of numbers
RECURSIVE SumSeq(_)
SumSeq(q) == IF q = <<>> THEN 0 ELSE Head(q) + SumSeq(Tail(q))

\* C7: the first delay is 1 second and each further one is twice the one
\* before; a delay follows every rate-limited call that is followed by another
\* call and no other; the delays of one get_embedding add up to at most
\* 1 + 2 seconds.
C7_ExponentialBackoff ==
    /\ \A n \in 1..Len(sleeps) :
          sleeps[n] = IF n = 1 THEN 1 ELSE 2 * sleeps[n - 1]
    /\ pc = "embed" => Len(sleeps) = Len(calls)
    /\ pc \in {"store", "crashed"} /\ calls # <<>> => Len(sleeps) = Len(calls) - 1
    /\ SumSeq(sleeps) <= 3

\* C7 witness: two delays were slept, 1 and 2 seconds
C7_Witness == pc = "embed" /\ sleeps = <<1, 2>>

\* C8: the failure of one rule does not end the batch: when the seeding run
\* is over every rule was processed, and every rule whose own embedding and
\* insert succeeded is in the table.
C8_BatchResilience ==
    seed_pc = "done"
        => \A r \in Rules :
              /\ seed_outcome[r] # "pending"
              /\ seed_outcome[r] = "inserted"
                    => \E i \in 1..Len(wissen) : wissen[i].content = r

\* C9: no row of the table has an empty embedding, and a call of
\* store_protocol with an empty vector executes no statement: it leaves the
\* table and the connection as they are.
C9_NoEmptyEmbedding ==
    /\ [](\A i \in 1..Len(store) : store[i].dim # 0)
    /\ [][(pc = "store" /\ embedding = 0)
            => (store' = store /\ conn' = conn /\ pc' # "crashed")]_vars

\* C9 witness: store_protocol was called with an empty vector on a table
\* that holds rows
C9_Witness == store_log = "empty_embedding" /\ store # <<>>

\* C10: every row of the table has an embedding of length 768, and a call of
\* store_protocol with a vector of any other length leaves the table as it is.
C10_DimensionInvariant ==
    /\ [](\A i \in 1..Len(store) : store[i].dim = 768)
    /\ [][(pc = "store" /\ embedding # 768) => store' = store]_vars

\* C10 witness: the table holds rows and the last insert, of a vector of
\* another length, was rejected
C10_Witness == store_log = "dimension_error" /\ store # <<>>

\* a call of delete_protocol or store_protocol whose statement failed: the
\* DELETE left the rows of the file in the table, the INSERT logged its error
FailedWrite ==
    \/ pc = "delete" /\ pc' # "delete" /\ Records(filepath) # {} /\ store' = store
    \/ pc = "store" /\ pc' # "store" /\ store_log' \in {"error", "dimension_error"}

\* C11: a failed write (delete or insert) leaves the table as it was and no
\* transaction open, and main can tell it from a successful one: both
\* functions return None on every path, so the failure has to reach main as
\* an exception.
C11_FailedWriteReported ==
    [][FailedWrite => (/\ store' = store
                       /\ conn' \notin {"intrans", "failed"}
                       /\ pc' = "crashed")]_vars

\* the requests that hold the result of a nearest-neighbour query
Retrieved == {t \in DOMAIN tasks : tasks[t].retrieved # <<>>}

\* the rows of the table a result holds, in the order of the result
ResultRows(t) == [n \in 1..Len(tasks[t].retrieved) |-> tasks[t].retrieved[n].row]

\* C12: the nearest-neighbour query with k = 3 returns min(3, number of
\* rows) different rows, no row it leaves out is nearer to the question than
\* a row it returns, and the rows come nearest first; it returns no row only
\* from an empty table.
C12_RetrievalOrdering ==
    /\ \A t \in Retrieved :
        LET rows == ResultRows(t)
            dist == tasks[t].dist
        IN  /\ Len(rows) = IF Len(store) < 3 THEN Len(store) ELSE 3
            /\ \A m, n \in 1..Len(rows) : m < n =>
                    (rows[m] # rows[n] /\ dist[rows[m]] <= dist[rows[n]])
            /\ \A i \in 1..Len(store) :
                    (\A n \in 1..Len(rows) : rows[n] # i) =>
                        \A n \in 1..Len(rows) : dist[rows[n]] <= dist[i]
    /\ \A t \in DOMAIN tasks : tasks[t].answer = "no_context" => store = <<>>

\* C12 witness: of four rows the three nearest were returned, one at 0.1
\* first and one at 0.3 last, and a row at 0.3 was left out
C12_Witness ==
    \E t \in Retrieved :
        /\ Len(store) = 4
        /\ Len(tasks[t].retrieved) = 3
        /\ tasks[t].dist[ResultRows(t)[1]] = 1
        /\ tasks[t].dist[ResultRows(t)[3]] = 3

\* C13: a request whose nearest-neighbour query returned no record ends with
\* the canned 'no relevant information' answer: not with the error message,
\* and without a call of the generative model.
C13_EmptyStoreBehaviour ==
    \A t \in DOMAIN tasks :
        tasks[t].found = 0 =>
            /\ tasks[t].pc = "done"
            /\ tasks[t].answer = "no_context"
            /\ tasks[t].gen_calls = <<>>

\* C13 witness: the query of a request returned no record
C13_Witness ==
    \E t \in DOMAIN tasks : tasks[t].found = 0 /\ tasks[t].db_calls = 1

\* C14: in query_agent.py a request whose embedding call yields the empty
\* vector (the call failed, or the provider answered with an empty list)
\* ends at once with the 'could not be processed' message: it has made no
\* query on the table and no call of the generative model.
C14_EmptyEmbeddingStops ==
    app = "query_agent" =>
        \A t \in DOMAIN tasks :
            (tasks[t].pc # "embed" /\ tasks[t].embedding = 0) =>
                /\ tasks[t].pc = "done"
                /\ tasks[t].answer = "no_embedding"
                /\ tasks[t].db_calls = 0
                /\ tasks[t].gen_calls = <<>>

\* C14 witness: a request of query_agent.py has ended on an empty embedding
C14_Witness ==
    /\ app = "query_agent"
    /\ store # <<>>
    /\ \E t \in DOMAIN tasks : tasks[t].answer = "no_embedding"

\* what an entry of the context shows as the source of its text
Shown(entry) ==
    IF "Quelle" \in DOMAIN entry THEN entry.Quelle ELSE entry.Protokoll[1]

\* the entry shows this similarity
HasScore(entry, similarity) ==
    "Aehnlichkeit" \in DOMAIN entry /\ entry.Aehnlichkeit = similarity

\* the names the metadata of a row gives for where its text comes from
Provenance(row) ==
    IF row.source_file = None THEN {row.source}
    ELSE {row.source_file, meeting_id(row.source_file)}

\* C15: the context of a request has one entry per retrieved record, in the
\* order of the result; every entry holds the text of its record, names the
\* source of the record and shows the similarity of the record to the
\* question (1 - distance).
C15_ContextBlock ==
    \A t \in Retrieved :
        LET rows == ResultRows(t)
            context == tasks[t].context
        IN  /\ Len(context) = Len(rows)
            /\ \A n \in 1..Len(rows) :
                /\ context[n].text = store[rows[n]].text
                /\ Shown(context[n]) \in Provenance(store[rows[n]])
                /\ HasScore(context[n], 10 - tasks[t].dist[rows[n]])

\* C16: on a table that holds the one row the batch indexer wrote for a
\* file, a request whose query returns retrieves that row, and its context
\* has an entry with the text of the file that names the file (its path or
\* its meeting id) as the source.
C16_EndToEnd ==
    (Len(store) = 1 /\ store[1].source_file # None) =>
        \A t \in DOMAIN tasks :
            tasks[t].found # -1 =>
                /\ tasks[t].found = 1
                /\ \E n \in 1..Len(tasks[t].context) :
                    /\ tasks[t].context[n].text = store[1].text
                    /\ Shown(tasks[t].context[n]) \in
                            {store[1].source_file, meeting_id(store[1].source_file)}

\* C17: the requests of the GUI are serialized on the one connection: a
\* request sends its database call only when no call of another request is
\* in progress on the connection.
C17_ConnectionSerialized ==
    [][\A t \in DOMAIN tasks :
            (tasks[t].pc = "db" /\ tasks'[t].pc # "db") => ~Busy]_vars

\* C18: a process started with a configuration error stops in
\* initialize_clients: it holds no connection, has made no embedding call,
\* has taken up no file and reported no outcome, and the table is as it was
\* when the process was started.
C18_ConfigErrorAtStartup ==
    /\ [](config # "ok" =>
            /\ pc = "exited"
            /\ conn = "none"
            /\ calls = <<>>
            /\ protocol_files = <<>>
            /\ \A p \in Paths : outcome[p] = "pending")
    /\ [][config' # "ok" => store' = store]_vars

\* C18 witness: a start with a configuration error after a run that has
\* stored rows
C18_Witness == config # "ok" /\ pc = "exited" /\ store # <<>>

\* C19: a request calls the generative model at most once, and exactly once
\* when its query returned at least one record; a failed call is the last
\* one, and the request then ends with the error message instead of an
\* answer.
C19_GenerateOnce ==
    \A t \in DOMAIN tasks :
        /\ Len(tasks[t].gen_calls) <= 1
        /\ tasks[t].found < 1 => tasks[t].gen_calls = <<>>
        /\ (tasks[t].found >= 1 /\ tasks[t].pc = "done") => Len(tasks[t].gen_calls) = 1
        /\ tasks[t].gen_calls = <<"error">> =>
                (tasks[t].pc = "done" /\ tasks[t].answer = "error")
        /\ tasks[t].gen_calls = <<"text">> =>
                (tasks[t].pc = "done" /\ tasks[t].answer = "generated")

\* C19 witness: the one generation call of a request has failed
C19_Witness ==
    \E t \in DOMAIN tasks :
        tasks[t].found >= 1 /\ tasks[t].gen_calls = <<"error">>

\* the requests that have ended, for a question that was not empty
Answered ==
    {t \in DOMAIN tasks :
        tasks[t].kind = "query" /\ tasks[t].pc = "done" /\ tasks[t].input # ""}

\* C20 as stated: every request ends with the generated answer, the 'no
\* embedding' message or the 'no relevant context' message.
C20_ThreeOutcomes ==
    \A t \in Answered :
        tasks[t].answer \in {"generated", "no_embedding", "no_context"}

\* C20 amended: every request ends with exactly one of four outcomes: the
\* generated answer (the generation call returned a text), the 'no relevant
\* context' message (the query returned no record), the 'no embedding'
\* message (query_agent.py only, before any query), or the error message
\* (the generation call failed, or the request got no result of a query);
\* a request that has not ended has shown none of them.
C20_FourOutcomes ==
    /\ \A t \in Answered :
        LET task == tasks[t]
        IN  /\ task.answer \in {"generated", "no_embedding", "no_context", "error"}
            /\ task.answer = "generated" <=> task.gen_calls = <<"text">>
            /\ task.answer = "no_context" <=> task.found = 0
            /\ task.answer = "no_embedding" =>
                    (app = "query_agent" /\ task.embedding = 0 /\ task.db_calls = 0)
            /\ task.answer = "error" =>
                    (task.gen_calls = <<"error">> \/ task.found = -1)
    /\ \A t \in DOMAIN tasks : tasks[t].pc # "done" => tasks[t].answer = None

\* C20 witness: in the console a request has ended with the error message
\* because its embedding call failed
C20_Witness ==
    /\ app = "console"
    /\ \E t \in Answered : tasks[t].answer = "error" /\ tasks[t].db_calls = 0

\* the step makes the first embedding call for a document of the batch after
\* the run has made a call for another one
NextDocumentCall ==
    /\ pc = "embed"
    /\ calls = <<>>
    /\ calls' # calls
    /\ last_call # None

\* the step of the seeding run makes the embedding call for a rule that is
\* not the first of the run
NextRuleCall ==
    /\ seed_pc = "rule"
    /\ seed_outcome' # seed_outcome
    /\ Len(seed_rules) < Len(initial_rules)

\* C21: a batch makes its embedding calls one after the other, each a step
\* of its one loop, and between the call for one document and the call for
\* the next document of the batch the program has slept the fixed delay of
\* 2 seconds, once and whatever the provider answered before.
C21_SerializedRateLimited ==
    [][/\ NextDocumentCall => pause = <<sleep_seconds>>
       /\ NextRuleCall => seed_pause = <<sleep_seconds>>]_vars

\* the content_hash of the row of the file p that was inserted last
LastStoredHash(p) ==
    LET last == CHOOSE i \in Records(p) : \A j \in Records(p) : j <= i
    IN  store[last].content_hash

\* C22: when the lookup of the stored hash succeeds for a file that has
\* records, the decision is taken on the hash of the record inserted last:
\* 'skip' when it equals the current hash, 'replace' when it differs.
C22_DecideOnLatest ==
    [][(LookupStep /\ conn' = "intrans" /\ Records(filepath) # {})
        => IF LastStoredHash(filepath) = current_hash
           THEN outcome'[filepath] = "skipped"
           ELSE pc' = "delete"]_vars

\* the orchestrator is working on the file p
Current(p) ==
    /\ pc \in {"load", "hash", "lookup", "delete", "embed", "store"}
    /\ protocol_files # <<>>
    /\ filepath = p

\* C23: the step that decides 'skip' leaves the table as it is, makes no
\* embedding call and goes on to the next file; the run then makes no
\* embedding call, no delete and no insert for the skipped file, as it does
\* not work on it again; the hash computation and the lookup of the stored
\* hash never change the table.
C23_SkipReadOnly ==
    /\ [](\A p \in Paths : outcome[p] = "skipped" => ~Current(p))
    /\ [][/\ (LookupStep /\ outcome'[filepath] = "skipped")
                => (/\ store' = store
                    /\ calls' = <<>>
                    /\ last_call' = last_call
                    /\ pc' \in {"load", "close"})
          /\ pc \in {"load", "hash", "lookup"} => store' = store]_vars

\* C23 witness: a run has skipped a file that has a row in the table
C23_Witness ==
    \E p \in Paths : outcome[p] = "skipped" /\ Records(p) # {} /\ pc = "done"

\* C24: in a 'replace' the delete comes first, the embedding call second and
\* the insert last: no embedding call is made for the file before
\* delete_protocol, and from the first embedding call to the insert the old
\* record is gone from the table, its delete being committed.
C24_ReplaceOrder ==
    /\ pc = "delete" => (decision = "replace" /\ calls = <<>>)
    /\ (pc \in {"embed", "store"} /\ decision = "replace")
            => Records(filepath) = {}

\* the step is a call of delete_protocol
DeleteStep == pc = "delete" /\ pc' # "delete"

\* the rows of the table s that do not belong to the file p, in their order
RECURSIVE OtherRows(_, _)
OtherRows(s, p) ==
    IF s = <<>> THEN <<>>
    ELSE IF Head(s).source_file = p THEN OtherRows(Tail(s), p)
    ELSE <<Head(s)>> \o OtherRows(Tail(s), p)

\* C25: a call of delete_protocol for a file that succeeds leaves no row of
\* the file in the table and every row of every other file (and every saved
\* text) as it was, in its place among the others; a call that fails leaves
\* the whole table as it was.
C25_DeleteFrame ==
    [][DeleteStep =>
        IF store_log' = "deleted"
        THEN /\ RowsOf(store', filepath) = {}
             /\ store' = OtherRows(store, filepath)
        ELSE store' = store]_vars

\* C25 witness: a delete has removed the rows of its file from a table that
\* keeps a row of another file and a saved text
C25_Witness ==
    /\ store_log = "deleted"
    /\ pc = "embed"
    /\ Records(filepath) = {}
    /\ \E i, j \in 1..Len(store) :
            store[i].source_file = None /\ store[j].source_file \in Paths

\* C26: no row of the table has an empty text, and the orchestrator makes
\* no embedding call with an empty text.
C26_NonEmptyText ==
    /\ \A i \in 1..Len(store) : store[i].text # ""
    /\ pc = "embed" => protocol_text # ""

\* a call of delete_protocol or store_protocol whose statement raised
WriteError ==
    /\ pc \in {"delete", "store"}
    /\ pc' # pc
    /\ store_log' \in {"delete_error", "error", "dimension_error"}

\* C27: after a storage error in a write (the DELETE or the INSERT of a
\* document) the transaction is rolled back, so that the connection takes
\* the next statement as a new one, and the batch goes on: it does not end
\* with an exception.
C27_RollbackAndContinue ==
    [][WriteError => (/\ conn' = "idle"
                      /\ store' = store
                      /\ pc' \in {"embed", "load", "close"})]_vars

\* the requests for an answer whose last embedding call met a rate limit and
\* that make no further call
GaveUpOnRateLimit ==
    {t \in DOMAIN tasks :
        /\ tasks[t].kind = "query"
        /\ tasks[t].pc # "embed"
        /\ tasks[t].emb_calls # <<>>
        /\ tasks[t].emb_calls[Len(tasks[t].emb_calls)] = "rate_limit"}

\* C28: the embedding of a question follows the retry policy of indexing: a
\* request gives up on a rate limit only after 3 embedding calls, and it
\* then ends with the 'no embedding' message.
C28_QueryEmbeddingRetry ==
    \A t \in GaveUpOnRateLimit :
        /\ Len(tasks[t].emb_calls) = max_retries
        /\ tasks[t].answer = "no_embedding"

\* the run of the orchestrator is over: main has returned, or an exception
\* has ended the process
RunEnded == pc \in {"done", "crashed"}

\* the results main logs for a file it has dealt with
Terminal == {"skipped", "inserted", "replaced", "failed"}

\* C29: a batch run makes at most 3 embedding calls for a file, and when it
\* is over it has reached the end of main: the connection is closed and
\* every file of the directory has left 'pending' for one of the results
\* skipped, inserted, replaced and failed.
C29_BatchTerminates ==
    /\ Len(calls) <= max_retries
    /\ RunEnded =>
        /\ pc = "done"
        /\ conn = "closed"
        /\ \A p \in Paths : files[p] # Missing => outcome[p] \in Terminal

\* a call of store_protocol in a 'replace' that stores nothing: the
\* embedding is empty, or the INSERT fails
ReplaceStoresNothing ==
    /\ pc = "store"
    /\ pc' # pc
    /\ decision = "replace"
    /\ store_log' # "stored"

\* C30: when the embedding of a file decided 'replace' comes back empty, or
\* its insert fails, the old record is already deleted and nothing is
\* inserted: the table holds no row of the file when the loop leaves it.
C30_ReplaceLosesRecord ==
    [][ReplaceStoresNothing
        => (store' = store /\ RowsOf(store', filepath) = {})]_vars

\* the rows of the file p that carry the hash h
RecordsWithHash(p, h) == {i \in Records(p) : store[i].content_hash = h}

\* C31: a file whose indexing failed in a run (its embedding was empty or
\* its insert failed) has no row in the table that carries its current
\* hash, and a lookup for a file that has no row with its current hash never
\* ends in 'skip': the file is processed again.
C31_FailedNotRecorded ==
    /\ [](\A p \in Paths :
            (outcome[p] = "failed" /\ files[p] # Missing)
                => RecordsWithHash(p, calculate_file_hash(files[p])) = {})
    /\ [][(LookupStep /\ RecordsWithHash(filepath, current_hash) = {})
            => pc' \in {"embed", "delete"}]_vars

\* C32: every row the batch orchestrator has written carries the hash of
\* the text it holds, also when another process changes the file between
\* the read of load_protocol_data and the read of calculate_file_hash.
C32_HashMatchesText ==
    \A i \in 1..Len(store) :
        store[i].source_file # None
            => store[i].content_hash = calculate_file_hash(store[i].text)

\* the table t holds one row per initial rule and nothing else
OneRowPerRule(t) ==
    /\ Len(t) = Len(initial_rules)
    /\ \A r \in Rules : Cardinality({i \in 1..Len(t) : t[i].content = r}) = 1

\* a rule of the run was not inserted
SeedFailed == \E r \in Rules : seed_outcome[r] # "inserted"

\* C33: a step of the seeding indexer leaves the table protokoll_wissen as
\* it is or puts exactly one row per initial rule in it, whatever it held
\* before; a run that ends after a failed embedding or insert has left the
\* table as it was, and a run whose four rules were inserted and committed
\* leaves the four rows.
C33_SeedAllOrNothing ==
    [][/\ wissen' = wissen \/ OneRowPerRule(wissen')
       /\ (seed_pc = "rule" /\ seed_pc' = "done") => wissen' = wissen
       /\ (seed_pc = "commit" /\ seed_pc' = "done")
            => (wissen' = wissen \/ (~SeedFailed /\ OneRowPerRule(wissen')))]_vars

\* C33 witness: a second run has failed on its third rule on the table the
\* first run has filled: the table holds the four rows of the first run
C33_Witness ==
    /\ seed_runs = 2
    /\ seed_pc = "done"
    /\ seed_outcome[initial_rules[2]] = "inserted"
    /\ seed_outcome[initial_rules[3]] = "failed"
    /\ OneRowPerRule(wissen)

\* the step is a call of embed_and_store_text
SaveStep == saves' # saves

\* C34: a call of embed_and_store_text whose embedding call returns a
\* vector and whose INSERT the database takes adds exactly one row, with the
\* text and the source name of the call, behind the rows the table held, and
\* returns True; a call whose embedding call or INSERT fails leaves the
\* table as it was and returns False; no call removes or changes a row, so
\* a second save under a source name adds a second row.
C34_SaveFrame ==
    [][SaveStep =>
        LET text == save_call'[1]
            source == save_call'[2]
            r == save_call'[3]
            fault == save_call'[4]
        IN  IF r.kind = "vec" /\ r.len = 768 /\ fault = "ok"
            THEN /\ save_result' = "True"
                 /\ Len(store') = Len(store) + 1
                 /\ SubSeq(store', 1, Len(store)) = store
                 /\ store'[Len(store')].text = text
                 /\ store'[Len(store')].source = source
            ELSE /\ save_result' = "False"
                 /\ store' = store]_vars

\* C34 witness: two saves under one source name have left two rows, and a
\* third save has failed
C34_Witness ==
    /\ saves = 3
    /\ save_result = "False"
    /\ Len(store) = 2
    /\ store[1].source = store[2].source

====
